---- MODULE Spec2Model ----
(***************************************************************************)
(* un7z: batch extraction of archives with an external tool run behind a   *)
(* pseudo-terminal (src/src/main.rs).                                      *)
(*                                                                         *)
(* Spec models one batch run of main(): the batch driver loop, the         *)
(* extraction orchestrator extract_archive, and the fork of run_with_pty.  *)
(* Processes are kept on a stack: a parent blocks in the relay (read loop  *)
(* and fork.wait()) until its child has terminated, so only the newest     *)
(* process takes steps.  fork() copies the parent's memory, so a child     *)
(* starts with a copy of its parent's frame.  fork.wait() is taken to      *)
(* yield the child's exit status, as lines 320-325 use it.  The run uses   *)
(* no password; failing system calls are counted and bounded by MaxFaults. *)
(*                                                                         *)
(* SpecRelay models one call of run_with_pty in the parent, chunk by chunk *)
(* against a child that writes and terminates; a write to standard output *)
(* may fail, which the code ignores.  SpecRelayFair adds the scheduling of *)
(* the parent.  SpecClassify models Archive::new and Archive::extract_dir  *)
(* on bounded file names, SpecCommand models Archive::extract_command and  *)
(* the child's rewrite of its arguments on every kind, mode and bounded    *)
(* password, and SpecSelect models parse_selection on bounded input        *)
(* strings, with usize UsizeBits wide.                                     *)
(***************************************************************************)
EXTENDS Integers, Sequences, FiniteSets, TLC

\* ------------------------------------------------------------ bounds
NumArchives == 2      \* archives found by the scan
MaxExit == 1          \* exit statuses of a child: 0..MaxExit
MaxFaults == 1        \* failing system calls (filesystem, pty, exec) per run
MaxOut == 2           \* chunks of output a child writes
MaxStem == 2          \* characters of a file name before its extensions
MaxPwd == 2           \* characters of a password
MaxInput == 4         \* characters of a selection input
MaxPool == 3          \* archives a selection is parsed against
UsizeBits == 4        \* width of usize, scaled down from the platform's 64

Archives == 1..NumArchives
ExitCodes == 0..MaxExit

\* ------------------------------------------------------------ data
ArchiveType == {"SevenZip", "Zip", "Rar", "TarGz"}

\* The kinds a batch run tells apart: extract_command treats SevenZip and
\* Zip in one match arm (line 94), and nothing else in the run reads the kind.
BatchTypes == {"SevenZip", "Rar", "TarGz"}

\* Entries of a directory tree as WalkDir reports them: is_file and len.
file_empty == [is_file |-> TRUE, len |-> 0]
file_data == [is_file |-> TRUE, len |-> 1]
subdir == [is_file |-> FALSE, len |-> 1]

Absent == [exists |-> FALSE, entries |-> {}]
Dir(es) == [exists |-> TRUE, entries |-> es]

\* States a target directory can be in before a run: none, one without a
\* non-empty regular file, one with.
InitialDirs == {Absent, Dir({file_empty, subdir}), Dir({file_data})}

\* What an extracting tool may leave in its output directory.
ToolOutputs == {{file_empty}, {file_data}}

\* Option<T>: None, or Some(s) as a one-element sequence.
None == << >>
Some(s) == <<s>>

Ok == [ok |-> TRUE, kind |-> "ok", code |-> 0]
NoResult == [ok |-> TRUE, kind |-> "none", code |-> 0]
Err(k, c) == [ok |-> FALSE, kind |-> k, code |-> c]

VARIABLES
    kind,       \* archive_type of each scanned archive
    test,       \* args.test
    password,   \* args.password
    indices,    \* the selected indices, in selection order
    fs,         \* the target directory of each archive
    log,        \* failed.log in each working directory
    spawns,     \* external commands exec'ed so far, by any process
    faults,     \* system calls that have failed so far
    procs,      \* the live processes, oldest first; the last one runs
    \* one relay (run_with_pty, parent path) in detail, under SpecRelay
    relayPc,    \* "read": in the read loop, "wait": at fork.wait(), "returned"
    childLive,  \* the child has not terminated
    childStatus,\* the exit status of the terminated child
    written,    \* chunks the child has written to the subordinate side
    unread,     \* chunks in the pseudo-terminal not yet read by the parent
    relayed,    \* chunks the parent has written to its standard output
    relayRet,   \* the value run_with_pty returned
    lost,       \* a write to standard output failed (ignored, line 312)
    loopEnd,    \* how the read loop ended: "none" (not yet), "eof", "error"
    \* the classifier, under SpecClassify
    cpc,        \* "input", "built" (Archive::new done), "dir" (extract_dir done)
    cpath,      \* a path: its components, each a sequence of characters
    archive,    \* Archive::new's Option<Archive>
    edir,       \* extract_dir's path
    \* the command builder, under SpecCommand
    bpc,        \* "input", "built" (extract_command done), "child" (child path done)
    bkind,      \* self.archive_type
    btest,      \* the test argument
    bpwd,       \* the password argument
    built,      \* the Command extract_command returned
    execd,      \* what the child path hands to exec, or its error
    \* the selection parser, under SpecSelect
    spc,        \* "input", "parsed"
    sinput,     \* the input string, a sequence of characters
    smax,       \* the size of the pool
    sret        \* parse_selection's Result<Vec<usize>>

batchVars == <<kind, test, password, indices, fs, log, spawns, faults, procs>>
relayVars == <<relayPc, childLive, childStatus, written, unread, relayed, relayRet,
               lost, loopEnd>>
classifyVars == <<cpc, cpath, archive, edir>>
commandVars == <<bpc, bkind, btest, bpwd, built, execd>>
selectVars == <<spc, sinput, smax, sret>>
vars == <<batchVars, relayVars, classifyVars, commandVars, selectVars>>

\* ------------------------------------------------------------ pure code
\* main passes force = false (line 489).
Force == FALSE

\* An extract_command whose Rar arm appends the output directory in both modes.
extract_command_rar_outdir_always(k, tst, pwd) ==
    CASE k \in {"SevenZip", "Zip"} ->
           [program |-> "7zz",
            args |-> (IF tst THEN << <<"t">> >> ELSE << <<"x">>, <<"-", "y">> >>)
                     \o << <<"PATH">> >>
                     \o (IF pwd # None THEN << <<"-", "p">> \o pwd[1] >> ELSE << >>)
                     \o << <<"-", "o", "BASE">> >>]
      [] k = "Rar" ->
           [program |-> "unrar",
            args |-> (IF tst THEN << <<"t">> >> ELSE << <<"x">>, <<"-", "y">> >>)
                     \o << <<"PATH">> >>
                     \o (IF pwd # None THEN << <<"-", "p">>, pwd[1] >>
                                        ELSE << <<"-", "p", "-">> >>)
                     \o << <<"BASE">> >>]
      [] k = "TarGz" ->
           IF tst
           THEN [program |-> "gzip", args |-> << <<"-", "t">>, <<"PATH">> >>]
           ELSE [program |-> "tar",
                 args |-> << <<"x", "z", "f">>, <<"PATH">>, <<"-", "C">>, <<"BASE">> >>]

\* Archive::extract_command, as the program and its argument tokens.  A token
\* is a sequence of characters, so that format!("-p{}", pwd) is a
\* concatenation; "PATH" and "BASE" stand for the text of self.path and of
\* self.base_name.
extract_command(k, tst, pwd) ==
    CASE k \in {"SevenZip", "Zip"} ->
           [program |-> "7zz",
            args |-> (IF tst THEN << <<"t">> >> ELSE << <<"x">>, <<"-", "y">> >>)
                     \o << <<"PATH">> >>
                     \o (IF pwd # None THEN << <<"-", "p">> \o pwd[1] >> ELSE << >>)
                     \o << <<"-", "o", "BASE">> >>]
      [] k = "Rar" ->
           [program |-> "unrar",
            args |-> (IF tst THEN << <<"t">> >> ELSE << <<"x">>, <<"-", "y">> >>)
                     \o << <<"PATH">> >>
                     \o (IF pwd # None THEN << <<"-", "p">>, pwd[1] >>
                                        ELSE << <<"-", "p", "-">> >>)
                     \o (IF ~tst THEN << <<"BASE">> >> ELSE << >>)]
      [] k = "TarGz" ->
           IF tst
           THEN [program |-> "gzip", args |-> << <<"-", "t">>, <<"PATH">> >>]
           ELSE [program |-> "tar",
                 args |-> << <<"x", "z", "f">>, <<"PATH">>, <<"-", "C">>, <<"BASE">> >>]

\* run_with_pty, child path: the archive path argument becomes the bare name.
rewrite_args(args) ==
    [i \in 1..Len(args) |-> IF args[i] = <<"PATH">> THEN <<"NAME">> ELSE args[i]]

found_archive(args) == \E i \in 1..Len(args) : args[i] = <<"PATH">>

\* A walk that forgets to ask for regular files.
has_nonempty_entries(d) == \E e \in d.entries : e.len > 0

\* extract_archive's walk of the target directory.
has_valid_files(d) == \E e \in d.entries : e.is_file /\ e.len > 0

\* A check that re-extracts over whatever it finds.
CheckDecisionNeverSkips(force, d) ==
    IF ~force /\ d.exists THEN "repair" ELSE "run"

\* extract_archive's decision on the prior state of the target directory.
CheckDecision(force, d) ==
    IF ~force /\ d.exists
    THEN IF has_valid_files(d) THEN "skip" ELSE "repair"
    ELSE "run"

\* An orchestrator that leaves the creation of the destination to the tool.
NeedsPreCreateNever(tst, k) == FALSE

\* extract_archive, line 369.
NeedsPreCreate(tst, k) == ~tst /\ k = "TarGz"

\* A relay that also looks for error text in what it relayed.
RelayResultFromOutput(exit_code) ==
    IF exit_code = 0 /\ \A i \in 1..Len(relayed) : relayed[i] # "error text"
    THEN Ok
    ELSE Err("command", exit_code)

\* run_with_pty, parent path: the result from the child's exit status.
RelayResult(exit_code) ==
    IF exit_code = 0 THEN Ok ELSE Err("command", exit_code)

\* An orchestrator that leaves the output of a failed run in place.
NeedsCleanupNever(ret, d) == FALSE

\* extract_archive, lines 416-419: remove the target directory after an error.
NeedsCleanup(ret, d) == ~ret.ok /\ d.exists

\* A loop that stops at the first failure.
AdvanceLoopAbort(pos, ret) == IF ret.ok THEN pos + 1 ELSE Len(indices) + 1

\* main's loop: position after an outcome has been folded.
AdvanceLoop(pos, ret) == pos + 1

\* A log opened with truncate instead of append.
write_truncating(lines, path) == <<path>>

\* main, lines 503-504: failed.log opened with append and create, and one
\* line with the path written at its end.
append_line(lines, path) == Append(lines, path)

\* A driver that logs a failure without counting it.
FailedAfterUncounted(n, ret) == n

\* main, lines 482-494: success and failed count Ok and Err; skipped is
\* bound once to 0 and never assigned.
SuccessAfter(n, ret) == IF ret.ok THEN n + 1 ELSE n
FailedAfter(n, ret) == IF ret.ok THEN n ELSE n + 1
SkippedAfter(n, ret) == n

\* ------------------------------------------------------------ processes
NoSummary == [total |-> -1, success |-> -1, failed |-> -1, skipped |-> -1]

InitFrame ==
    [pc |-> "loop", pos |-> 1, a |-> 0,
     success |-> 0, failed |-> 0, skipped |-> 0,
     invoked |-> << >>, outcomes |-> << >>, spawnErrs |-> {},
     cwd |-> "start",
     startDir |-> Absent, startSpawns |-> 0, removed |-> FALSE, created |-> FALSE,
     relay |-> NoResult, ret |-> Ok, state |-> "Unchecked",
     cmd |-> [program |-> "", args |-> << >>],
     cleanup |-> "none", wrote |-> FALSE, summary |-> NoSummary]

Top == procs[Len(procs)]
SetTop(f) == procs' = [procs EXCEPT ![Len(procs)] = f]

\* A system call fails (the environment's choice, at most MaxFaults times),
\* or none does.
Fault == faults < MaxFaults /\ faults' = faults + 1
NoFault == faults' = faults

\* The directory holding an archive, which a child makes its working
\* directory: the first archive lies in the directory the run started in,
\* the others in a subdirectory of the scanned tree.
ArchiveDir(a) == IF a = 1 THEN "start" ELSE "sub"

\* Selections main can hold: non-empty, ascending, without duplicates.
RECURSIVE Ascending(_)
Ascending(S) ==
    IF S = {} THEN << >>
    ELSE LET m == CHOOSE x \in S : \A y \in S : x <= y
         IN <<m>> \o Ascending(S \ {m})

Selections == {Ascending(S) : S \in (SUBSET Archives) \ {{}}}

Selected(sel) == {sel[i] : i \in 1..Len(sel)}

\* failed.log before the run: in the directory the run starts in, a line
\* left by an earlier run (0: an archive of that run); none elsewhere.
PriorLog == [d \in {"start", "sub"} |-> IF d = "start" THEN <<0>> ELSE << >>]

RelayIdle ==
    /\ relayPc = "idle" /\ childLive = FALSE /\ childStatus = 0
    /\ written = << >> /\ unread = << >> /\ relayed = << >>
    /\ relayRet = NoResult /\ lost = FALSE /\ loopEnd = "none"

ClassifyIdle ==
    /\ cpc = "idle" /\ cpath = << >> /\ archive = None /\ edir = None

NoCommand == [program |-> "", args |-> << >>]

CommandIdle ==
    /\ bpc = "idle" /\ bkind = "SevenZip" /\ btest = FALSE /\ bpwd = None
    /\ built = NoCommand /\ execd = NoCommand

\* Result<Vec<usize>>: Ok(v), or the error named by its context.
NoSelection == [ok |-> TRUE, kind |-> "none", indices |-> << >>]
SelOk(v) == [ok |-> TRUE, kind |-> "ok", indices |-> v]
SelErr(msg) == [ok |-> FALSE, kind |-> msg, indices |-> << >>]

SelectIdle ==
    /\ spc = "idle" /\ sinput = << >> /\ smax = 0 /\ sret = NoSelection

BatchIdle ==
    /\ test = FALSE /\ password = None /\ indices = << >>
    /\ kind = [a \in Archives |-> "SevenZip"]
    /\ fs = [a \in Archives |-> Absent]
    /\ log = [d \in {"start", "sub"} |-> << >>]
    /\ spawns = << >> /\ faults = 0 /\ procs = << >>

Init ==
    /\ RelayIdle
    /\ ClassifyIdle
    /\ CommandIdle
    /\ SelectIdle
    /\ test \in BOOLEAN
    /\ indices \in Selections
    /\ kind \in [Archives -> BatchTypes]
    /\ fs \in [Archives -> InitialDirs]
    \* archives outside the selection are never touched: one representative
    /\ \A a \in Archives \ Selected(indices) : kind[a] = "SevenZip" /\ fs[a] = Absent
    /\ password = None
    /\ log = PriorLog
    /\ spawns = << >>
    /\ faults = 0
    /\ procs = <<InitFrame>>

\* ------------------------------------------------------------ batch driver
\* main, lines 486-489: take the next selected archive and call
\* extract_archive on it (lines 335-336).
DriverNext ==
    /\ Top.pc = "loop"
    /\ Top.pos <= Len(indices)
    /\ LET a == indices[Top.pos] IN
       SetTop([Top EXCEPT !.pc = "check", !.a = a,
                          !.invoked = Append(@, a),
                          !.startDir = fs[a],
                          !.startSpawns = Len(spawns)])
    /\ UNCHANGED <<relayVars, classifyVars, commandVars, selectVars, faults, kind, test, password, indices, fs, log, spawns>>

\* extract_archive, lines 339-356: valid prior output, report and return Ok.
CheckSkip ==
    /\ Top.pc = "check"
    /\ CheckDecision(Force, fs[Top.a]) = "skip"
    /\ SetTop([Top EXCEPT !.pc = "fold", !.ret = Ok, !.state = "Skipped"])
    /\ UNCHANGED <<relayVars, classifyVars, commandVars, selectVars, faults, kind, test, password, indices, fs, log, spawns>>

\* extract_archive, lines 357-365: incomplete prior output is removed;
\* a failing remove_dir_all returns its error (the ? of line 364).
CheckRepair ==
    /\ Top.pc = "check"
    /\ CheckDecision(Force, fs[Top.a]) = "repair"
    /\ \/ /\ fs' = [fs EXCEPT ![Top.a] = Absent]
          /\ NoFault
          /\ SetTop([Top EXCEPT !.pc = "precreate", !.removed = TRUE])
       \/ /\ fs' = fs
          /\ Fault
          /\ SetTop([Top EXCEPT !.pc = "fold", !.ret = Err("fs", 0),
                                !.state = "Failed"])
    /\ UNCHANGED <<relayVars, classifyVars, commandVars, selectVars, kind, test, password, indices, log, spawns>>

\* extract_archive, line 339: no target directory (or force), go on.
CheckRun ==
    /\ Top.pc = "check"
    /\ CheckDecision(Force, fs[Top.a]) = "run"
    /\ SetTop([Top EXCEPT !.pc = "precreate"])
    /\ UNCHANGED <<relayVars, classifyVars, commandVars, selectVars, faults, kind, test, password, indices, fs, log, spawns>>

\* extract_archive, lines 368-371: tar needs its destination to exist.
PreCreate ==
    /\ Top.pc = "precreate"
    /\ \/ /\ ~NeedsPreCreate(test, kind[Top.a])
          /\ fs' = fs
          /\ NoFault
          /\ SetTop([Top EXCEPT !.pc = "spawn", !.state = "Running"])
       \/ /\ NeedsPreCreate(test, kind[Top.a])
          /\ fs' = [fs EXCEPT ![Top.a] = IF @.exists THEN @ ELSE Dir({})]
          /\ NoFault
          /\ SetTop([Top EXCEPT !.pc = "spawn", !.state = "Running",
                                !.created = TRUE])
       \/ /\ NeedsPreCreate(test, kind[Top.a])
          /\ fs' = fs
          /\ Fault
          /\ SetTop([Top EXCEPT !.pc = "fold", !.ret = Err("fs", 0),
                                !.state = "Failed"])
    /\ UNCHANGED <<relayVars, classifyVars, commandVars, selectVars, kind, test, password, indices, log, spawns>>

\* extract_archive, lines 389-395, and run_with_pty, lines 255-267: build the
\* command and fork behind a pseudo-terminal.  Resolving the archive's
\* directory or allocating the pseudo-terminal may fail before the fork.
Spawn ==
    /\ Top.pc = "spawn"
    /\ LET c == extract_command(kind[Top.a], test, password)
           parent == [Top EXCEPT !.cmd = c]
       IN \/ /\ Fault
             /\ SetTop([parent EXCEPT !.pc = "handle", !.relay = Err("setup", 0)])
          \/ /\ Fault
             /\ SetTop([parent EXCEPT !.pc = "handle", !.relay = Err("spawn", 0),
                                      !.spawnErrs = @ \cup {Top.a}])
          \/ /\ NoFault
             /\ procs' = [procs EXCEPT ![Len(procs)] = [parent EXCEPT !.pc = "relay"]]
                         \o <<[parent EXCEPT !.pc = "child_chdir"]>>
    /\ UNCHANGED <<relayVars, classifyVars, commandVars, selectVars, kind, test, password, indices, fs, log, spawns>>

\* run_with_pty, child path, line 272: set_current_dir; on failure the ?
\* returns the error to extract_archive in the child process.
ChildChdir ==
    /\ Top.pc = "child_chdir"
    /\ \/ /\ NoFault
          /\ SetTop([Top EXCEPT !.pc = "child_exec", !.cwd = ArchiveDir(Top.a)])
       \/ /\ Fault
          /\ SetTop([Top EXCEPT !.pc = "handle", !.relay = Err("spawn", 0)])
    /\ UNCHANGED <<relayVars, classifyVars, commandVars, selectVars, kind, test, password, indices, fs, log, spawns>>

\* run_with_pty, child path, lines 275-297: rewrite the arguments and exec.
\* A successful exec turns the process into the external tool; a failed one
\* returns an error to extract_archive in the child process.
ChildExec ==
    /\ Top.pc = "child_exec"
    /\ \/ /\ found_archive(Top.cmd.args)
          /\ NoFault
          /\ SetTop([Top EXCEPT !.pc = "tool",
                                !.cmd = [program |-> Top.cmd.program,
                                         args |-> rewrite_args(Top.cmd.args)]])
          /\ spawns' = Append(spawns, [a |-> Top.a, program |-> Top.cmd.program,
                                       test |-> test, by |-> Len(procs) - 1])
       \/ /\ IF found_archive(Top.cmd.args) THEN Fault ELSE NoFault
          /\ SetTop([Top EXCEPT !.pc = "handle", !.relay = Err("spawn", 0)])
          /\ spawns' = spawns
    /\ UNCHANGED <<relayVars, classifyVars, commandVars, selectVars, kind, test, password, indices, fs, log>>

\* The external tool, extracting: it leaves files in its output directory
\* (BASE, relative to the archive's directory), creating it when missing;
\* tar needs the directory to exist.
ToolWrite ==
    /\ Top.pc = "tool"
    /\ ~Top.wrote
    /\ ~test
    /\ kind[Top.a] = "TarGz" => fs[Top.a].exists
    /\ \E out \in ToolOutputs :
          fs' = [fs EXCEPT ![Top.a] = Dir(@.entries \cup out)]
    /\ SetTop([Top EXCEPT !.wrote = TRUE])
    /\ UNCHANGED <<relayVars, classifyVars, commandVars, selectVars, faults, kind, test, password, indices, log, spawns>>

\* The external tool terminates; run_with_pty, parent path, lines 320-325:
\* fork.wait() and the mapping of the exit status.
ToolExit ==
    /\ Top.pc = "tool"
    /\ \E exit_code \in ExitCodes :
          procs' = [SubSeq(procs, 1, Len(procs) - 1)
                       EXCEPT ![Len(procs) - 1] =
                          [@ EXCEPT !.pc = "handle",
                                    !.relay = RelayResult(exit_code)]]
    /\ UNCHANGED <<relayVars, classifyVars, commandVars, selectVars, faults, kind, test, password, indices, fs, log, spawns>>

\* extract_archive, lines 398-423: on an error the target directory, if it
\* exists, is removed; a failing removal returns its own error (line 418).
HandleResult ==
    /\ Top.pc = "handle"
    /\ \/ /\ ~NeedsCleanup(Top.relay, fs[Top.a])
          /\ fs' = fs
          /\ NoFault
          /\ SetTop([Top EXCEPT !.pc = "fold", !.ret = Top.relay,
                                !.cleanup = "unneeded",
                                !.state = IF Top.relay.ok THEN "Succeeded"
                                          ELSE "Failed"])
       \/ /\ NeedsCleanup(Top.relay, fs[Top.a])
          /\ fs' = [fs EXCEPT ![Top.a] = Absent]
          /\ NoFault
          /\ SetTop([Top EXCEPT !.pc = "fold", !.ret = Top.relay,
                                !.cleanup = "done", !.state = "Failed"])
       \/ /\ NeedsCleanup(Top.relay, fs[Top.a])
          /\ fs' = fs
          /\ Fault
          /\ SetTop([Top EXCEPT !.pc = "fold", !.ret = Err("fs", 0),
                                !.cleanup = "failed", !.state = "Failed"])
    /\ UNCHANGED <<relayVars, classifyVars, commandVars, selectVars, kind, test, password, indices, log, spawns>>

\* main, lines 489-507: fold the outcome into the counters; on Err append
\* the path to failed.log in the working directory (open and write errors
\* are ignored, lines 503-505).
Fold ==
    /\ Top.pc = "fold"
    /\ SetTop([Top EXCEPT !.pc = "loop",
                          !.pos = AdvanceLoop(Top.pos, Top.ret),
                          !.success = SuccessAfter(@, Top.ret),
                          !.failed = FailedAfter(@, Top.ret),
                          !.skipped = SkippedAfter(@, Top.ret),
                          !.outcomes = Append(@, Top.state),
                          !.a = 0, !.startDir = Absent, !.startSpawns = 0,
                          !.removed = FALSE,
                          !.created = FALSE, !.relay = NoResult, !.ret = Ok,
                          !.state = "Unchecked", !.cleanup = "none",
                          !.wrote = FALSE,
                          !.cmd = [program |-> "", args |-> << >>]])
    /\ \/ /\ Top.ret.ok
          /\ log' = log
          /\ NoFault
       \/ /\ ~Top.ret.ok
          /\ log' = [log EXCEPT ![Top.cwd] = append_line(@, Top.a)]
          /\ NoFault
       \/ /\ ~Top.ret.ok
          /\ log' = log
          /\ Fault
    /\ UNCHANGED <<relayVars, classifyVars, commandVars, selectVars, kind, test, password, indices, fs, spawns>>

\* main, lines 510-528: the summary after the loop.
Summary ==
    /\ Top.pc = "loop"
    /\ Top.pos > Len(indices)
    /\ SetTop([Top EXCEPT !.pc = "done",
                          !.summary = [total |-> Len(indices),
                                       success |-> Top.success,
                                       failed |-> Top.failed,
                                       skipped |-> Top.skipped]])
    /\ UNCHANGED <<relayVars, classifyVars, commandVars, selectVars, faults, kind, test, password, indices, fs, log, spawns>>

\* main returns Ok(()) in a forked child (line 528): the child exits with
\* status 0 and its parent's fork.wait() returns (lines 320-325).  Only a
\* child whose chdir or exec failed gets here: spawnErrs notes the archive.
ChildReturn ==
    /\ Top.pc = "done"
    /\ Len(procs) > 1
    /\ procs' = [SubSeq(procs, 1, Len(procs) - 1)
                    EXCEPT ![Len(procs) - 1] =
                       [@ EXCEPT !.pc = "handle", !.relay = RelayResult(0),
                                 !.spawnErrs = @ \cup {procs[Len(procs) - 1].a}]]
    /\ UNCHANGED <<relayVars, classifyVars, commandVars, selectVars, faults, kind, test, password, indices, fs, log, spawns>>

Next ==
    \/ DriverNext
    \/ CheckSkip
    \/ CheckRepair
    \/ CheckRun
    \/ PreCreate
    \/ Spawn
    \/ ChildChdir
    \/ ChildExec
    \/ ToolWrite
    \/ ToolExit
    \/ HandleResult
    \/ Fold
    \/ Summary
    \/ ChildReturn

Spec == Init /\ [][Next]_vars

\* ------------------------------------------------------------ the relay
\* run_with_pty, parent path, lines 300-326, with the child behind the
\* pseudo-terminal.  fork.is_parent() cannot fail in the parent (line 303).
Chunks == {"progress", "error text"}

\* A relay that writes the whole buffer instead of the n bytes read.
write_whole_buffer(out, chunk) == out \o chunk \o <<"stale">>

\* Line 312: standard output after write_all of the bytes read.
write_all(out, chunk) == out \o chunk

InitRelay ==
    /\ BatchIdle
    /\ ClassifyIdle
    /\ CommandIdle
    /\ SelectIdle
    /\ relayPc = "read" /\ childLive = TRUE /\ childStatus = 0
    /\ written = << >> /\ unread = << >> /\ relayed = << >>
    /\ relayRet = NoResult /\ lost = FALSE /\ loopEnd = "none"

\* The child writes a chunk to its standard output, the subordinate side.
ChildEmit ==
    /\ relayPc \in {"read", "wait"}
    /\ childLive
    /\ Len(written) < MaxOut
    /\ \E c \in Chunks :
          /\ written' = Append(written, c)
          /\ unread' = Append(unread, c)
    /\ UNCHANGED <<batchVars, classifyVars, commandVars, selectVars, relayPc, childLive,
                   childStatus, relayed, relayRet, lost, loopEnd>>

\* The child terminates with some exit status.
ChildTerminate ==
    /\ relayPc \in {"read", "wait"}
    /\ childLive
    /\ childLive' = FALSE
    /\ childStatus' \in ExitCodes
    /\ UNCHANGED <<batchVars, classifyVars, commandVars, selectVars, relayPc, written,
                   unread, relayed, relayRet, lost, loopEnd>>

\* Lines 309-314: a read returns n > 0 bytes, which are written to standard
\* output; a failing write_all has written less than all of them, and its
\* error is dropped by the let _ of line 312.
RelayRead ==
    /\ relayPc = "read"
    /\ unread # << >>
    /\ \E n \in 1..Len(unread) :
          /\ unread' = SubSeq(unread, n + 1, Len(unread))
          /\ \/ /\ relayed' = write_all(relayed, SubSeq(unread, 1, n))
                /\ lost' = lost
             \/ /\ \E k \in 0..n - 1 :
                      relayed' = write_all(relayed, SubSeq(unread, 1, k))
                /\ lost' = TRUE
    /\ UNCHANGED <<batchVars, classifyVars, commandVars, selectVars, relayPc, childLive,
                   childStatus, written, relayRet, loopEnd>>

\* Line 310: end of stream, the subordinate side is closed and drained.
RelayEof ==
    /\ relayPc = "read"
    /\ unread = << >>
    /\ ~childLive
    /\ relayPc' = "wait"
    /\ loopEnd' = "eof"
    /\ UNCHANGED <<batchVars, classifyVars, commandVars, selectVars, childLive,
                   childStatus, written, unread, relayed, relayRet, lost>>

\* Line 315: a read error ends the loop as well.
RelayReadError ==
    /\ relayPc = "read"
    /\ relayPc' = "wait"
    /\ loopEnd' = "error"
    /\ UNCHANGED <<batchVars, classifyVars, commandVars, selectVars, childLive,
                   childStatus, written, unread, relayed, relayRet, lost>>

\* Lines 320-325: fork.wait() returns once the child has terminated.
RelayWait ==
    /\ relayPc = "wait"
    /\ ~childLive
    /\ relayRet' = RelayResult(childStatus)
    /\ relayPc' = "returned"
    /\ UNCHANGED <<batchVars, classifyVars, commandVars, selectVars, childLive,
                   childStatus, written, unread, relayed, lost, loopEnd>>

NextRelay ==
    \/ ChildEmit
    \/ ChildTerminate
    \/ RelayRead
    \/ RelayEof
    \/ RelayReadError
    \/ RelayWait

SpecRelay == InitRelay /\ [][NextRelay]_vars

\* The parent is scheduled: a read returns when bytes are there or the
\* stream has ended, and fork.wait() returns when the child has terminated.
\* Nothing makes the child terminate or a read fail.
SpecRelayFair ==
    /\ SpecRelay
    /\ WF_vars(RelayRead)
    /\ WF_vars(RelayEof)
    /\ WF_vars(RelayWait)

\* ------------------------------------------------------------ the classifier
\* File names are sequences of characters, paths sequences of components.
S_7z_001 == <<".", "7", "z", ".", "0", "0", "1">>
S_zip_001 == <<".", "z", "i", "p", ".", "0", "0", "1">>
S_tar_gz == <<".", "t", "a", "r", ".", "g", "z">>
S_tgz == <<".", "t", "g", "z">>
S_part01_rar == <<".", "p", "a", "r", "t", "0", "1", ".", "r", "a", "r">>
S_part001_rar == <<".", "p", "a", "r", "t", "0", "0", "1", ".", "r", "a", "r">>

\* str::ends_with and str::strip_suffix.
ends_with(s, suf) ==
    /\ Len(s) >= Len(suf)
    /\ SubSeq(s, Len(s) - Len(suf) + 1, Len(s)) = suf

strip_suffix(s, suf) ==
    IF ends_with(s, suf) THEN Some(SubSeq(s, 1, Len(s) - Len(suf))) ELSE None

\* The ? on an Option: None returns None, Some(x) goes on with x.
Typed(t, stripped) == IF stripped = None THEN None ELSE Some(<<t, stripped[1]>>)

\* A classifier whose .zip.001 arm was copied from the .7z.001 arm.
parse_type_zip_as_7z(filename) ==
    IF ends_with(filename, S_7z_001)
    THEN Typed("SevenZip", strip_suffix(filename, S_7z_001))
    ELSE IF ends_with(filename, S_zip_001)
    THEN Typed("SevenZip", strip_suffix(filename, S_zip_001))
    ELSE IF strip_suffix(filename, S_tar_gz) # None
    THEN Typed("TarGz", strip_suffix(filename, S_tar_gz))
    ELSE IF strip_suffix(filename, S_tgz) # None
    THEN Typed("TarGz", strip_suffix(filename, S_tgz))
    ELSE IF ends_with(filename, S_part01_rar)
    THEN Typed("Rar", strip_suffix(filename, S_part01_rar))
    ELSE IF ends_with(filename, S_part001_rar)
    THEN Typed("Rar", strip_suffix(filename, S_part001_rar))
    ELSE None

\* Archive::parse_type, lines 70-90.
parse_type(filename) ==
    IF ends_with(filename, S_7z_001)
    THEN Typed("SevenZip", strip_suffix(filename, S_7z_001))
    ELSE IF ends_with(filename, S_zip_001)
    THEN Typed("Zip", strip_suffix(filename, S_zip_001))
    ELSE IF strip_suffix(filename, S_tar_gz) # None
    THEN Typed("TarGz", strip_suffix(filename, S_tar_gz))
    ELSE IF strip_suffix(filename, S_tgz) # None
    THEN Typed("TarGz", strip_suffix(filename, S_tgz))
    ELSE IF ends_with(filename, S_part01_rar)
    THEN Typed("Rar", strip_suffix(filename, S_part01_rar))
    ELSE IF ends_with(filename, S_part001_rar)
    THEN Typed("Rar", strip_suffix(filename, S_part001_rar))
    ELSE None

\* Path::file_name and Path::parent of a path with a final file component.
file_name(path) == IF path = << >> THEN None ELSE Some(path[Len(path)])
parent(path) == IF path = << >> THEN None ELSE Some(SubSeq(path, 1, Len(path) - 1))

\* Path::join with a relative name: joining the empty name adds no component.
join(path, name) == IF name = << >> THEN path ELSE Append(path, name)

\* Archive::new, lines 51-60.
Archive_new(path) ==
    IF file_name(path) = None THEN None
    ELSE LET parsed == parse_type(file_name(path)[1]) IN
         IF parsed = None THEN None
         ELSE Some([path |-> path, base_name |-> parsed[1][2],
                    archive_type |-> parsed[1][1]])

\* Archive::extract_dir, lines 63-68.
extract_dir(arch) ==
    IF parent(arch.path) = None THEN None
    ELSE Some(join(parent(arch.path)[1], arch.base_name))

Suffixes == {S_7z_001, S_zip_001, S_tar_gz, S_tgz, S_part01_rar, S_part001_rar}

\* Endings that are not recognised.
Decoys == {<<>>,
           <<".", "7", "z", ".", "0", "0", "2">>,
           <<".", "z", "i", "p">>,
           <<".", "t", "a", "r">>,
           <<".", "g", "z">>,
           <<".", "r", "a", "r">>,
           <<".", "p", "a", "r", "t", "1", ".", "r", "a", "r">>,
           <<".", "T", "G", "Z">>,
           <<".", "t", "x", "t">>,
           <<"t", "g", "z">>,
           <<".", "7", "z", ".", "0", "0", "1", "x">>}

StemChars == {"a", "."}
Stems == UNION {[1..n -> StemChars] : n \in 0..MaxStem}

FileNames ==
    {s \o m \o t : s \in Stems, m \in {<< >>} \cup Suffixes,
                   t \in Suffixes \cup Decoys} \ {<< >>}

ParentDirs == {<< >>, << <<"d">> >>}

InitClassify ==
    /\ BatchIdle
    /\ RelayIdle
    /\ CommandIdle
    /\ SelectIdle
    /\ cpc = "input"
    /\ \E dir \in ParentDirs, fn \in FileNames : cpath = Append(dir, fn)
    /\ archive = None
    /\ edir = None

ArchiveNew ==
    /\ cpc = "input"
    /\ archive' = Archive_new(cpath)
    /\ cpc' = "built"
    /\ UNCHANGED <<batchVars, relayVars, commandVars, selectVars, cpath, edir>>

ExtractDir ==
    /\ cpc = "built"
    /\ archive # None
    /\ edir' = extract_dir(archive[1])
    /\ cpc' = "dir"
    /\ UNCHANGED <<batchVars, relayVars, commandVars, selectVars, cpath, archive>>

NextClassify ==
    \/ ArchiveNew
    \/ ExtractDir

SpecClassify == InitClassify /\ [][NextClassify]_vars

\* ------------------------------------------------------------ the command builder
\* Archive::extract_command on every kind, mode and password, followed by
\* the child path of run_with_pty, lines 275-294, on its result.
PwdChars == {"s", "-"}
Passwords == UNION {[1..n -> PwdChars] : n \in 0..MaxPwd}

InitCommand ==
    /\ BatchIdle
    /\ RelayIdle
    /\ ClassifyIdle
    /\ SelectIdle
    /\ bpc = "input"
    /\ bkind \in ArchiveType
    /\ btest \in BOOLEAN
    /\ bpwd \in {None} \cup {Some(w) : w \in Passwords}
    /\ built = NoCommand
    /\ execd = NoCommand

BuildCommand ==
    /\ bpc = "input"
    /\ built' = extract_command(bkind, btest, bpwd)
    /\ bpc' = "built"
    /\ UNCHANGED <<batchVars, relayVars, classifyVars, selectVars, bkind, btest, bpwd, execd>>

ChildRewrite ==
    /\ bpc = "built"
    /\ execd' = IF found_archive(built.args)
                THEN [program |-> built.program, args |-> rewrite_args(built.args)]
                ELSE [program |-> "", args |-> << <<"Archive path not found">> >>]
    /\ bpc' = "child"
    /\ UNCHANGED <<batchVars, relayVars, classifyVars, selectVars, bkind, btest, bpwd, built>>

NextCommand ==
    \/ BuildCommand
    \/ ChildRewrite

SpecCommand == InitCommand /\ [][NextCommand]_vars

\* ------------------------------------------------------------ the selection parser
\* parse_selection, lines 220-247, on strings as sequences of characters.
UsizeMax == 2 ^ UsizeBits - 1

DigitChars == <<"0", "1", "2", "3", "4", "5", "6", "7", "8", "9">>
IsDigit(c) == \E d \in 1..10 : DigitChars[d] = c
DigitVal(c) == (CHOOSE d \in 1..10 : DigitChars[d] = c) - 1

\* str::split on one character: the pieces between its occurrences.
RECURSIVE split(_, _)
split(str, sep) ==
    IF \A i \in 1..Len(str) : str[i] # sep
    THEN <<str>>
    ELSE LET i == CHOOSE k \in 1..Len(str) :
                     str[k] = sep /\ \A j \in 1..k - 1 : str[j] # sep
         IN <<SubSeq(str, 1, i - 1)>> \o split(SubSeq(str, i + 1, Len(str)), sep)

\* str::trim: white space removed at both ends.
RECURSIVE trim(_)
trim(str) ==
    IF str # << >> /\ str[1] = " " THEN trim(Tail(str))
    ELSE IF str # << >> /\ str[Len(str)] = " " THEN trim(SubSeq(str, 1, Len(str) - 1))
    ELSE str

contains(str, c) == \E i \in 1..Len(str) : str[i] = c

\* The digit loop of usize::from_str: checked multiply and add, None on a
\* character that is no digit or on overflow.
RECURSIVE parse_digits(_, _)
parse_digits(digits, acc) ==
    IF digits = << >> THEN Some(acc)
    ELSE IF ~IsDigit(digits[1]) THEN None
    ELSE IF acc * 10 + DigitVal(digits[1]) > UsizeMax THEN None
    ELSE parse_digits(Tail(digits), acc * 10 + DigitVal(digits[1]))

\* str::parse::<usize>: an optional + and at least one digit.
parse_usize(str) ==
    LET digits == IF str # << >> /\ str[1] = "+" THEN Tail(str) ELSE str
    IN IF digits = << >> THEN None ELSE parse_digits(digits, 0)

\* Vec::sort and Vec::dedup.
RECURSIVE insert_sorted(_, _)
insert_sorted(v, x) ==
    IF v = << >> THEN <<x>>
    ELSE IF x <= v[1] THEN <<x>> \o v
    ELSE <<v[1]>> \o insert_sorted(Tail(v), x)

RECURSIVE sort(_)
sort(v) == IF v = << >> THEN << >> ELSE insert_sorted(sort(Tail(v)), v[1])

RECURSIVE dedup(_)
dedup(v) ==
    IF Len(v) <= 1 THEN v
    ELSE IF v[1] = v[2] THEN dedup(Tail(v))
    ELSE <<v[1]>> \o dedup(Tail(v))

\* Lines 224-241: what one part of the input pushes, or its error.
parse_part(raw, max) ==
    LET part == trim(raw) IN
    IF contains(part, "-")
    THEN LET range == split(part, "-") IN
         IF Len(range) = 2
         THEN LET start == parse_usize(range[1])
                  end == parse_usize(range[2])
              IN IF start = None THEN SelErr("Invalid range start")
                 ELSE IF end = None THEN SelErr("Invalid range end")
                 ELSE SelOk(Ascending({i - 1 : i \in {j \in start[1]..end[1] :
                                                        j > 0 /\ j <= max}}))
         ELSE SelOk(<< >>)
    ELSE LET num == parse_usize(part) IN
         IF num = None THEN SelErr("Invalid number")
         ELSE SelOk(IF num[1] > 0 /\ num[1] <= max THEN <<num[1] - 1>> ELSE << >>)

\* Lines 223-242: the loop over the parts; the first error returns.
RECURSIVE collect(_, _, _)
collect(parts, max, selected) ==
    IF parts = << >> THEN SelOk(selected)
    ELSE LET r == parse_part(parts[1], max) IN
         IF ~r.ok THEN r
         ELSE collect(Tail(parts), max, selected \o r.indices)

\* A parser that returns the indices as pushed.
parse_selection_as_pushed(input, max) == collect(split(input, ","), max, << >>)

\* parse_selection, lines 220-247.
parse_selection(input, max) ==
    LET r == collect(split(input, ","), max, << >>) IN
    IF r.ok THEN SelOk(dedup(sort(r.indices))) ELSE r

InputChars == {"0", "1", "2", ",", "-", " ", "+", "x"}
Inputs == UNION {[1..n -> InputChars] : n \in 0..MaxInput}

InitSelect ==
    /\ BatchIdle
    /\ RelayIdle
    /\ ClassifyIdle
    /\ CommandIdle
    /\ spc = "input"
    /\ sinput \in Inputs
    /\ smax \in 1..MaxPool
    /\ sret = NoSelection

ParseSelection ==
    /\ spc = "input"
    /\ sret' = parse_selection(sinput, smax)
    /\ spc' = "parsed"
    /\ UNCHANGED <<batchVars, relayVars, classifyVars, commandVars, sinput, smax>>

NextSelect == ParseSelection

SpecSelect == InitSelect /\ [][NextSelect]_vars

\* ------------------------------------------------------------ properties
Frames == {procs[p] : p \in 1..Len(procs)}
Root == procs[1]
Count(seq, v) == Cardinality({i \in 1..Len(seq) : seq[i] = v})

\* A directory that exists and holds a regular file of non-zero size.
HoldsNonEmptyFile(d) == d.exists /\ \E e \in d.entries : e.is_file /\ e.len > 0

\* Program points of main and extract_archive (a parent blocked in the relay
\* is at "relay"), and of the child path of run_with_pty.
DriverPcs == {"loop", "check", "precreate", "spawn", "handle", "fold", "done"}
ChildPcs == {"child_chdir", "child_exec", "tool"}

\* C1: in every process running the batch driver, the archives handed to the
\* orchestrator are the selected ones in selection order; the run is never
\* stuck before the summary, and at the summary every selected entry has
\* been invoked and has an outcome, whatever the outcomes were.
C1_BatchNeverAborts ==
    /\ \A f \in Frames :
          /\ Len(f.invoked) <= Len(indices)
          /\ f.invoked = SubSeq(indices, 1, Len(f.invoked))
          /\ f.pc = "done" =>
                /\ f.invoked = indices
                /\ Len(f.outcomes) = Len(indices)
    /\ Root.pc # "done" => ENABLED Next

C1_Witness ==
    /\ Root.pc = "done"
    /\ Len(indices) >= 2
    /\ Root.outcomes[1] = "Failed"
    /\ Root.outcomes[2] = "Succeeded"

\* C2: at most one external tool is live, at most one process executes
\* orchestrator or batch-driver steps, and a forked child only ever executes
\* the child path of the relay (it becomes the tool or terminates).
C2_ChildNeverRunsDriver ==
    /\ Cardinality({p \in 1..Len(procs) : procs[p].pc = "tool"}) <= 1
    /\ Cardinality({p \in 1..Len(procs) : procs[p].pc \in DriverPcs}) <= 1
    /\ \A p \in 2..Len(procs) : procs[p].pc \in ChildPcs

\* C3: when the summary is printed each counter equals the number of
\* outcomes of its kind: skipped counts the Skipped archives, succeeded the
\* Succeeded ones, failed the Failed ones.
C3_CountersMatchOutcomes ==
    Root.pc = "done" =>
        /\ Root.summary.skipped = Count(Root.outcomes, "Skipped")
        /\ Root.summary.success = Count(Root.outcomes, "Succeeded")
        /\ Root.summary.failed = Count(Root.outcomes, "Failed")

\* C4 as stated: whenever the relay returned an error, the target directory
\* does not exist when the Failed outcome is reported.
C4_FailedLeavesNoDirectory ==
    \A f \in Frames :
        (f.pc = "fold" /\ ~f.relay.ok) => ~fs[f.a].exists

\* C4 amended: whenever the relay returned an error and the removal of the
\* target directory did not itself fail, the directory does not exist when
\* Failed is reported, and a later check of it does not decide to skip.
C4_FailedLeavesNoDirectoryUnlessRemovalFails ==
    \A f \in Frames :
        (f.pc = "fold" /\ ~f.relay.ok /\ f.cleanup # "failed") =>
            /\ f.state = "Failed"
            /\ ~fs[f.a].exists
            /\ CheckDecision(Force, fs[f.a]) # "skip"

C4_Witness ==
    \E f \in Frames :
        /\ f.pc = "fold"
        /\ f.relay = Err("command", 1)
        /\ f.cleanup = "done"
        /\ ~fs[f.a].exists

C6_IncompleteOutputIsRepaired ==
    \A f \in Frames :
        (f.a # 0 /\ ~Force /\ f.startDir.exists /\ ~HoldsNonEmptyFile(f.startDir)) =>
            /\ f.state # "Skipped"
            /\ f.pc = "precreate" => f.removed /\ ~fs[f.a].exists
            /\ f.pc \in {"spawn", "relay", "handle"} \cup ChildPcs => f.removed
            /\ f.pc = "fold" => f.relay # NoResult \/ f.ret = Err("fs", 0)
            /\ (f.pc = "fold" /\ f.removed /\ f.ret # Err("fs", 0)) =>
                   f.relay # NoResult

C6_Witness ==
    \E f \in Frames :
        /\ f.pc = "tool"
        /\ f.startDir = Dir({file_empty, subdir})
        /\ f.removed

\* C8: every archive whose relay met a spawn failure (pseudo-terminal
\* allocation failed, or chdir/exec failed in the child) is counted as
\* Failed by the process the user started, and its path is in that
\* process's failure log.
C8_SpawnFailureIsFailed ==
    Root.pc = "done" =>
        \A j \in 1..Len(indices) :
            indices[j] \in Root.spawnErrs =>
                /\ Root.outcomes[j] = "Failed"
                /\ Root.summary.failed >= 1
                /\ \E i \in 1..Len(log[Root.cwd]) : log[Root.cwd][i] = indices[j]

\* C9: with the test option, each archive that was run has a test
\* invocation of the tool followed by an extract invocation.
C9_TestThenExtract ==
    (Root.pc = "done" /\ test) =>
        \A j \in 1..Len(indices) :
            Root.outcomes[j] = "Succeeded" =>
                \E i, k \in 1..Len(spawns) :
                    /\ i < k
                    /\ spawns[i].a = indices[j] /\ spawns[i].test
                    /\ spawns[k].a = indices[j] /\ ~spawns[k].test

SuffixKind ==
    {<<S_7z_001, "SevenZip">>, <<S_zip_001, "Zip">>, <<S_tar_gz, "TarGz">>,
     <<S_tgz, "TarGz">>, <<S_part01_rar, "Rar">>, <<S_part001_rar, "Rar">>}

BasesOf(fn, suf) ==
    {SubSeq(fn, 1, n) : n \in {m \in 0..Len(fn) : SubSeq(fn, 1, m) \o suf = fn}}

\* C10: a file name ending in a recognised suffix is classified with the
\* kind of that suffix and the name less that suffix as base name; any
\* other name is not an archive; the target directory is the directory of
\* the archive followed by the base name.
C10_ClassificationTotal ==
    cpc \in {"built", "dir"} =>
        LET fn == cpath[Len(cpath)]
            dir == SubSeq(cpath, 1, Len(cpath) - 1)
            hits == {sk \in SuffixKind : BasesOf(fn, sk[1]) # {}}
        IN /\ hits = {} => archive = None
           /\ \A sk \in hits :
                 /\ archive # None
                 /\ archive[1].archive_type = sk[2]
                 /\ archive[1].base_name \in BasesOf(fn, sk[1])
                 /\ archive[1].path = cpath
                 /\ cpc = "dir" =>
                       /\ edir # None
                       /\ \A b \in BasesOf(fn, sk[1]) :
                             edir[1] = IF b = << >> THEN dir ELSE dir \o <<b>>
           /\ cpc = "dir" => archive # None

C10_Witness ==
    /\ cpc = "dir"
    /\ cpath = << <<"d">>, <<"a">> \o S_zip_001 \o S_tar_gz >>
    /\ archive[1].archive_type = "TarGz"
    /\ edir = Some(<< <<"d">>, <<"a">> \o S_zip_001 >>)

\* Positions of the archive path among the arguments, and a token starting
\* with given characters.
PathAt(args) == {i \in 1..Len(args) : args[i] = <<"PATH">>}
StartsWith(tok, pre) == Len(tok) >= Len(pre) /\ SubSeq(tok, 1, Len(pre)) = pre

\* C11: the path is one argument.  Rar in Test mode ends with its password
\* tokens and has no base-name argument; Rar in Extract mode has the base
\* name last.  Without a password Rar has the one token -p- after the path
\* and SevenZip/Zip have no token starting with -p; with a password
\* SevenZip/Zip have the one token -p<password> right after the path and Rar
\* the two tokens -p and <password>.  SevenZip/Zip end with -o<base_name> in
\* both modes.
C11_CommandConstruction ==
    bpc \in {"built", "child"} =>
        LET a == built.args
            n == Len(a)
        IN /\ Cardinality(PathAt(a)) = 1
           /\ \A p \in PathAt(a) :
              /\ (bkind = "Rar" /\ btest) =>
                    /\ \A i \in 1..n : a[i] # <<"BASE">>
                    /\ n = p + (IF bpwd = None THEN 1 ELSE 2)
              /\ (bkind = "Rar" /\ ~btest) =>
                    /\ a[n] = <<"BASE">>
                    /\ n = p + (IF bpwd = None THEN 2 ELSE 3)
              /\ (bkind = "Rar" /\ bpwd = None) =>
                    /\ a[p + 1] = <<"-", "p", "-">>
                    /\ \A i \in 1..n : StartsWith(a[i], <<"-", "p">>) => i = p + 1
              /\ (bkind = "Rar" /\ bpwd # None) =>
                    /\ a[p + 1] = <<"-", "p">>
                    /\ a[p + 2] = bpwd[1]
              /\ (bkind \in {"SevenZip", "Zip"} /\ bpwd = None) =>
                    /\ \A i \in 1..n : ~StartsWith(a[i], <<"-", "p">>)
                    /\ n = p + 1
              /\ (bkind \in {"SevenZip", "Zip"} /\ bpwd # None) =>
                    /\ a[p + 1] = <<"-", "p">> \o bpwd[1]
                    /\ n = p + 2
              /\ bkind \in {"SevenZip", "Zip"} =>
                    a[n] = <<"-", "o", "BASE">>

C11_Witness ==
    /\ bpc = "child"
    /\ bkind = "Rar" /\ btest /\ bpwd = Some(<<"s", "-">>)
    /\ built.args = << <<"t">>, <<"PATH">>, <<"-", "p">>, <<"s", "-">> >>
    /\ execd.args = << <<"t">>, <<"NAME">>, <<"-", "p">>, <<"s", "-">> >>

\* A sequence that begins with another.
IsPrefix(s, t) == Len(s) <= Len(t) /\ SubSeq(t, 1, Len(s)) = s

\* C12 as stated: at the summary the failure log of the run holds what it
\* held before the run followed by one line per archive counted as failed,
\* each such archive's path among them.
C12_LogLinesEqualFailed ==
    Root.pc = "done" =>
        /\ IsPrefix(PriorLog[Root.cwd], log[Root.cwd])
        /\ Len(log[Root.cwd]) - Len(PriorLog[Root.cwd]) = Root.summary.failed
        /\ \A j \in 1..Len(indices) :
              Root.outcomes[j] = "Failed" =>
                  \E i \in Len(PriorLog[Root.cwd]) + 1..Len(log[Root.cwd]) :
                      log[Root.cwd][i] = indices[j]

\* C12 amended: a step in which a process folds a Failed outcome counts it
\* and either adds exactly one line, the archive's path, at the end of the
\* failure log in that process's working directory, or, when opening or
\* writing the log fails, leaves every log as it is; no other step changes
\* a log.  So no line is ever removed, and the lines added are the failures
\* counted less the failed log writes.
C12_EachFailureAppendsOneLine ==
    [][LET f == Top IN
       IF f.pc = "fold" /\ ~f.ret.ok
       THEN /\ procs'[Len(procs)].failed = f.failed + 1
            /\ \/ log' = [log EXCEPT ![f.cwd] = log[f.cwd] \o <<f.a>>]
               \/ log' = log /\ faults' = faults + 1
       ELSE log' = log]_vars

C12_Witness ==
    /\ Root.pc = "done"
    /\ Root.cwd = "start"
    /\ Root.summary.failed = 2
    /\ log["start"] = PriorLog["start"] \o <<1, 2>>

\* A number as written: an optional + and digits; its value; a range as
\* written: two numbers around one -.
RECURSIVE DecimalValue(_)
DecimalValue(digits) ==
    IF digits = << >> THEN 0
    ELSE 10 * DecimalValue(SubSeq(digits, 1, Len(digits) - 1))
         + DigitVal(digits[Len(digits)])

Unsigned(t) == IF t # << >> /\ t[1] = "+" THEN Tail(t) ELSE t
IsNumber(t) == Unsigned(t) # << >> /\ \A i \in 1..Len(Unsigned(t)) : IsDigit(Unsigned(t)[i])
NumberValue(t) == DecimalValue(Unsigned(t))

Cuts(t) == {k \in 1..Len(t) : t[k] = "-"}
IsRange(t) ==
    /\ Cardinality(Cuts(t)) = 1
    /\ \A k \in Cuts(t) : IsNumber(SubSeq(t, 1, k - 1)) /\ IsNumber(SubSeq(t, k + 1, Len(t)))
RangeLow(t) == NumberValue(SubSeq(t, 1, (CHOOSE k \in Cuts(t) : TRUE) - 1))
RangeHigh(t) == NumberValue(SubSeq(t, (CHOOSE k \in Cuts(t) : TRUE) + 1, Len(t)))

\* The parts of an input, trimmed; the numbers a part lists; the numbers
\* written in a part.
PartsOf(in) == {trim(split(in, ",")[k]) : k \in 1..Len(split(in, ","))}
WellFormed(in) == \A t \in PartsOf(in) : IsNumber(t) \/ IsRange(t)
Listed(t) == IF IsNumber(t) THEN {NumberValue(t)} ELSE RangeLow(t)..RangeHigh(t)
Written(t) == IF IsNumber(t) THEN {NumberValue(t)} ELSE {RangeLow(t), RangeHigh(t)}
Wanted(in, max) == {i - 1 : i \in {j \in UNION {Listed(t) : t \in PartsOf(in)} :
                                       1 <= j /\ j <= max}}

StrictlyAscending(v) == \A i \in 1..Len(v) - 1 : v[i] < v[i + 1]

\* C13 as stated: for an input of well-formed numbers and ranges the parser
\* returns the indices i-1 of the listed i within 1..max, each once, in
\* strictly ascending order and all below max.
C13_SelectionExact ==
    (spc = "parsed" /\ WellFormed(sinput)) =>
        /\ sret.ok
        /\ StrictlyAscending(sret.indices)
        /\ {sret.indices[i] : i \in 1..Len(sret.indices)} = Wanted(sinput, smax)
        /\ \A i \in 1..Len(sret.indices) : sret.indices[i] < smax

\* C13 amended: the same, for inputs whose numbers all fit a usize; an
\* input with a well-formed number too large for a usize is an error.
C13_SelectionExactForUsize ==
    (spc = "parsed" /\ WellFormed(sinput)) =>
        IF \A t \in PartsOf(sinput) : \A n \in Written(t) : n <= UsizeMax
        THEN /\ sret.ok
             /\ StrictlyAscending(sret.indices)
             /\ {sret.indices[i] : i \in 1..Len(sret.indices)} = Wanted(sinput, smax)
             /\ \A i \in 1..Len(sret.indices) : sret.indices[i] < smax
        ELSE ~sret.ok /\ sret.indices = << >>

C13_Witness ==
    /\ spc = "parsed"
    /\ sinput = <<"0", "-", "1", "2">>
    /\ smax = 3
    /\ sret = SelOk(<<0, 1, 2>>)

\* C14: an input with a part that is neither a well-formed number nor a
\* well-formed range is an error, and no indices are returned.
C14_MalformedPartFails ==
    (spc = "parsed" /\ ~WellFormed(sinput)) =>
        ~sret.ok /\ sret.indices = << >>

\* C15: the directory the orchestrator works on, the archive's directory
\* joined with the base name, is never the archive file itself and never
\* the directory that holds the archive.
C15_TargetIsSiblingDirectory ==
    (cpc = "dir" /\ edir # None) =>
        /\ edir[1] # cpath
        /\ edir[1] # SubSeq(cpath, 1, Len(cpath) - 1)
        /\ Len(edir[1]) = Len(cpath)

\* External commands exec'ed for an archive, by any process of the run.
SpawnsOf(a) == {i \in 1..Len(spawns) : spawns[i].a = a}

\* C16: no archive ever has more than one external command spawned for it
\* in the run, the command is the one for its kind and mode, and at the
\* summary an archive reported Skipped has none and one reported Succeeded
\* has exactly one.
C16_OneToolPerArchive ==
    /\ \A a \in Archives : Cardinality(SpawnsOf(a)) <= 1
    /\ \A i \in 1..Len(spawns) :
          spawns[i].program =
              (IF kind[spawns[i].a] = "Rar" THEN "unrar"
               ELSE IF kind[spawns[i].a] = "TarGz"
                    THEN (IF test THEN "gzip" ELSE "tar")
                    ELSE "7zz")
    /\ Root.pc = "done" =>
          \A j \in 1..Len(indices) :
              /\ Root.outcomes[j] = "Skipped" => SpawnsOf(indices[j]) = {}
              /\ Root.outcomes[j] = "Succeeded" =>
                    Cardinality(SpawnsOf(indices[j])) = 1

\* One sequence got from another by leaving elements out.
RECURSIVE IsSubsequence(_, _)
IsSubsequence(s, t) ==
    IF s = << >> THEN TRUE
    ELSE IF t = << >> THEN FALSE
    ELSE IF s[1] = t[1] THEN IsSubsequence(Tail(s), Tail(t))
    ELSE IsSubsequence(s, Tail(t))

\* C17 as stated, its ordering part: what has been relayed is always a
\* prefix of what the child wrote.
C17_RelayedIsPrefix == IsPrefix(relayed, written)

\* C17 amended: what has been relayed is what the child wrote, in order and
\* unmodified, less what failed writes to standard output left out; with no
\* failed write it is a prefix of what the child wrote, followed by what is
\* still unread.  The read loop has ended only on end-of-stream (the child
\* terminated, everything read) or on a read error; the relay has returned
\* only after the loop ended and the child terminated; and once the child
\* has terminated the relay eventually returns.
C17_RelayInOrderAndReturns ==
    /\ [](/\ IsSubsequence(relayed, written)
          /\ ~lost => /\ IsPrefix(relayed, written)
                       /\ relayPc = "read" => relayed \o unread = written
          /\ relayPc = "read" <=> loopEnd = "none"
          /\ loopEnd = "eof" => unread = << >> /\ ~childLive
          /\ relayPc = "returned" <=> relayRet # NoResult
          /\ relayPc = "returned" => loopEnd \in {"eof", "error"} /\ ~childLive)
    /\ (~childLive ~> relayPc = "returned")

C17_Witness ==
    /\ relayPc = "returned"
    /\ loopEnd = "eof"
    /\ ~lost
    /\ written = <<"progress", "error text">>
    /\ relayed = written

\* C18: for a TarGz archive in Extract mode the orchestrator has created the
\* target directory before the command is built and the relay called, and
\* the directory exists when the tool is invoked; the tool runs in the
\* archive's directory with the base name after -C, which names that same
\* directory.  For any other kind, and in Test mode, the orchestrator has
\* created nothing and the directory does not exist when the relay is called.
C18_TarTargetExistsAtInvocation ==
    \A f \in Frames :
        LET tarExtract == kind[f.a] = "TarGz" /\ ~test IN
        /\ f.pc \in {"spawn", "relay"} \cup ChildPcs => (f.created <=> tarExtract)
        /\ f.created => tarExtract
        /\ f.pc \in {"spawn", "child_chdir", "child_exec"} =>
              (fs[f.a].exists <=> tarExtract)
        /\ (f.pc = "tool" /\ tarExtract) =>
              /\ fs[f.a].exists
              /\ f.cwd = ArchiveDir(f.a)
              /\ f.cmd.program = "tar"
              /\ \E i \in 1..Len(f.cmd.args) - 1 :
                    /\ f.cmd.args[i] = <<"-", "C">>
                    /\ f.cmd.args[i + 1] = <<"BASE">>

C18_Witness ==
    \E f \in Frames :
        /\ f.pc = "tool"
        /\ kind[f.a] = "TarGz" /\ ~test
        /\ f.a = 2 /\ f.cwd = "sub"
        /\ f.created /\ f.wrote
        /\ HoldsNonEmptyFile(fs[f.a])

\* The tally of a process adds up to the archives it has processed.
TallyAddsUp(f) ==
    /\ f.success + f.failed + f.skipped = Len(f.outcomes)
    /\ f.pc = "loop" => Len(f.outcomes) = f.pos - 1
    /\ f.pc = "done" =>
          /\ Len(f.outcomes) = Len(indices)
          /\ f.summary.total = Len(indices)
          /\ f.summary.success + f.summary.failed + f.summary.skipped
                = f.summary.total

\* C19: in every process, at every point of the loop, succeeded + failed +
\* skipped is the number of selected archives processed so far, and the sum
\* printed in the summary is the reported total, the number of selected
\* archives; no step lowers a counter, and a forked child starts from its
\* parent's counters.
C19_TallyInvariant ==
    /\ \A p \in 1..Len(procs) : TallyAddsUp(procs[p])
    /\ [][\A p \in 1..Len(procs') :
             /\ TallyAddsUp(procs'[p])
             /\ LET before == IF p <= Len(procs) THEN procs[p] ELSE Top IN
                /\ procs'[p].success >= before.success
                /\ procs'[p].failed >= before.failed
                /\ procs'[p].skipped >= before.skipped
                /\ procs'[p].success + procs'[p].failed + procs'[p].skipped
                      <= before.success + before.failed + before.skipped + 1]_vars

C19_Witness ==
    /\ Root.pc = "done"
    /\ Root.summary = [total |-> 2, success |-> 1, failed |-> 1, skipped |-> 0]
    /\ Root.outcomes = <<"Failed", "Succeeded">>

====
